---- MODULE Spec2Model ----
(***************************************************************************)
(* Model of the seen-article store (storage/article_tracker.py) and of the *)
(* visual scraping run of the Landezine scraper                            *)
(* (operators/custom_scrapers/landezine.py).                               *)
(*                                                                         *)
(* Strings are sequences of one-character strings; the prefix "headline:"  *)
(* of a placeholder key is kept as a single element of the sequence.       *)
(* The articles table is a bag of rows: the id column is left out, the     *)
(* code only tests it for truth (a SERIAL id is never 0).                  *)
(***************************************************************************)
EXTENDS Bags, FiniteSets, Integers, Sequences, TLC

\* ------------------------------------------------------------------ bounds
MaxTime == 1
MaxRows == 2
MaxRuns == 2
MaxFaults == 2
MaxLines == 2

\* ------------------------------------------------------------------ inputs
Sources == {"landezine", "prorus"}

\* headline lists handed to store_headlines and find_new_headlines: plain,
\* differing in case only, padded with whitespace, blank, repeated
HeadlineLists ==
    { <<>>, << <<"a">> >>, << <<"A">>, <<"b">> >>, << <<" ", "a">>, <<" ">> >>,
      << <<"a">>, <<"a">> >> }

\* headline and url handed to update_headline_url
UpdateHeadlines == { <<"a">>, <<" ", "a">>, <<" ">> }

UpdateUrls == { <<"u">> }

\* identifier lists handed to mark_as_seen and filter_new_articles: urls and
\* one placeholder key, in both orders, with a repetition
UrlLists ==
    { <<>>, << <<"u">> >>, << <<"u">>, <<"v">> >>, << <<"v">>, <<"u">> >>,
      << <<"v">> >>, << <<"u">>, <<"u">> >>, << <<"headline:", "a">>, <<"u">> >> }

\* ------------------------------------------------------------------ strings
NULL == <<"NULL">>

Whitespace == {" ", "\n"}

LowerChar(c) ==
    CASE c = "A" -> "a"
      [] c = "B" -> "b"
      [] c = "H" -> "h"
      [] c = "M" -> "m"
      [] c = "N" -> "n"
      [] c = "O" -> "o"
      [] c = "T" -> "t"
      [] OTHER -> c

Lower(s) == [i \in 1..Len(s) |-> LowerChar(s[i])]

RECURSIVE LStrip(_)
LStrip(s) ==
    IF s = <<>> THEN s
    ELSE IF Head(s) \in Whitespace THEN LStrip(Tail(s)) ELSE s

RECURSIVE RStrip(_)
RStrip(s) ==
    IF s = <<>> THEN s
    ELSE IF s[Len(s)] \in Whitespace THEN RStrip(SubSeq(s, 1, Len(s) - 1)) ELSE s

Strip(s) == RStrip(LStrip(s))

Placeholder(headline) == <<"headline:">> \o headline

IsPlaceholder(url) == Len(url) >= 1 /\ url[1] = "headline:"

Elems(seq) == { seq[i] : i \in 1..Len(seq) }

\* ------------------------------------------------------------------ table
Row(s, u, h, fs, lc) ==
    [source_id |-> s, url |-> u, headline |-> h, first_seen |-> fs, last_checked |-> lc]

Rows(db) == BagToSet(db)

RowsOf(db, s) == { r \in Rows(db) : r.source_id = s }

\* the number of rows among the set S of distinct rows, with their copies
BagCount(db, S) == BagCardinality([r \in S |-> db[r]])

\* a lookup that never finds the url
ExistsNever(db, s, u) == FALSE

\* SELECT ... WHERE source_id = s AND url = u returns a row
Exists(db, s, u) == \E r \in Rows(db) : r.source_id = s /\ r.url = u

\* a schema without the UNIQUE constraint: no insert ever conflicts
ConflictWithoutUnique(db, s, u) == FALSE

\* UNIQUE(source_id, url): an insert of (s, u) conflicts when such a row exists
Conflict(db, s, u) == \E r \in Rows(db) : r.source_id = s /\ r.url = u

\* UPDATE articles SET last_checked = NOW() WHERE source_id = s AND url = u
BumpLastChecked(db, s, u, t) ==
    BagOfAll(LAMBDA r : IF r.source_id = s /\ r.url = u
                        THEN [r EXCEPT !.last_checked = t] ELSE r, db)

InsertRow(db, r) == db (+) SetToBag({r})

\* the unique index rejects a statement that would leave two rows with one key
ViolatesUnique(db) ==
    \E r \in Rows(db) :
        BagCount(db, { x \in Rows(db) : x.source_id = r.source_id /\ x.url = r.url }) > 1

\* ------------------------------------------------------------------ store_headlines
\* INSERT (source_id, url, headline) ... ON CONFLICT (source_id, url) DO NOTHING
InsertHeadline(db, s, headline, t) ==
    IF Conflict(db, s, Placeholder(headline)) THEN db
    ELSE InsertRow(db, Row(s, Placeholder(headline), Strip(headline), t, t))

RECURSIVE StoreHeadlinesDb(_, _, _, _)
StoreHeadlinesDb(db, s, headlines, t) ==
    IF headlines = <<>> THEN db
    ELSE IF Strip(Head(headlines)) = <<>>
         THEN StoreHeadlinesDb(db, s, Tail(headlines), t)
         ELSE StoreHeadlinesDb(InsertHeadline(db, s, Head(headlines), t), s, Tail(headlines), t)

StoreHeadlinesCount(headlines) ==
    Len(SelectSeq(headlines, LAMBDA h : Strip(h) # <<>>))

\* ------------------------------------------------------------------ get_stored_headlines / find_new_headlines
GetStoredHeadlines(db, s) ==
    { r.headline : r \in { x \in RowsOf(db, s) : x.headline # NULL /\ x.headline # <<>> } }

FindNewHeadlines(db, s, current_headlines) ==
    LET stored_set == { Lower(Strip(h)) : h \in GetStoredHeadlines(db, s) }
    IN  SelectSeq(current_headlines, LAMBDA h : Lower(Strip(h)) \notin stored_set)

\* ------------------------------------------------------------------ update_headline_url
MatchesPlaceholder(r, s, headline) ==
    r.source_id = s /\ r.headline # NULL /\ r.headline = headline /\ IsPlaceholder(r.url)

\* the placeholder row deleted instead of rewritten
RewritePlaceholderDeletes(db, s, headline, u, t) ==
    LET keep == { r \in Rows(db) : ~MatchesPlaceholder(r, s, headline) }
    IN  [r \in keep |-> db[r]]

\* UPDATE articles SET url = u, last_checked = NOW()
\* WHERE source_id = s AND headline = headline AND url LIKE 'headline:%'
RewritePlaceholder(db, s, headline, u, t) ==
    BagOfAll(LAMBDA r : IF MatchesPlaceholder(r, s, headline)
                        THEN [r EXCEPT !.url = u, !.last_checked = t] ELSE r, db)

\* INSERT ... ON CONFLICT (source_id, url) DO UPDATE SET headline, last_checked
UpsertHeadlineUrl(db, s, u, headline, t) ==
    IF Conflict(db, s, u)
    THEN BagOfAll(LAMBDA r : IF r.source_id = s /\ r.url = u
                             THEN [r EXCEPT !.headline = headline, !.last_checked = t]
                             ELSE r, db)
    ELSE InsertRow(db, Row(s, u, headline, t, t))

\* the branches of update_headline_url: the url is already tracked; the
\* placeholder row is rewritten; no placeholder, a row is inserted; the UPDATE
\* hits the unique index and the except clause returns False
UpdateHeadlineUrl(db, s, headline, u, t) ==
    IF Exists(db, s, u)
    THEN [db |-> BumpLastChecked(db, s, u, t),
          result |-> TRUE, raised |-> FALSE, branch |-> "existing"]
    ELSE LET updated == RewritePlaceholder(db, s, headline, u, t)
             n == BagCount(db, { r \in Rows(db) : MatchesPlaceholder(r, s, headline) })
         IN  IF ViolatesUnique(updated)
             THEN [db |-> db, result |-> FALSE, raised |-> FALSE, branch |-> "error"]
             ELSE IF n = 0
                  THEN [db |-> UpsertHeadlineUrl(db, s, u, headline, t),
                        result |-> TRUE, raised |-> FALSE, branch |-> "insert"]
                  ELSE [db |-> updated, result |-> TRUE, raised |-> FALSE, branch |-> "rewrite"]

\* ------------------------------------------------------------------ filter_new_articles / mark_as_seen
\* the query without its source_id condition
FilterNewArticlesAnySource(db, s, urls) ==
    IF urls = <<>> THEN <<>>
    ELSE LET seen_urls == { r.url : r \in { x \in Rows(db) : x.url \in Elems(urls) } }
         IN  SelectSeq(urls, LAMBDA u : u \notin seen_urls)

FilterNewArticles(db, s, urls) ==
    IF urls = <<>> THEN <<>>
    ELSE LET seen_urls == { r.url : r \in { x \in RowsOf(db, s) : x.url \in Elems(urls) } }
         IN  SelectSeq(urls, LAMBDA u : u \notin seen_urls)

\* an UPDATE of last_checked alone: an unseen url is not inserted
UpsertSeenUpdateOnly(db, s, u, t) == BumpLastChecked(db, s, u, t)

\* a REPLACE of the row: headline and first_seen are lost
UpsertSeenReplace(db, s, u, t) ==
    LET keep == { r \in Rows(db) : ~(r.source_id = s /\ r.url = u) }
    IN  InsertRow([r \in keep |-> db[r]], Row(s, u, NULL, t, t))

\* a plain INSERT, without the ON CONFLICT clause
UpsertSeenPlainInsert(db, s, u, t) == InsertRow(db, Row(s, u, NULL, t, t))

\* INSERT (source_id, url) ... ON CONFLICT (source_id, url) DO UPDATE SET last_checked
UpsertSeen(db, s, u, t) ==
    IF Conflict(db, s, u)
    THEN BumpLastChecked(db, s, u, t)
    ELSE InsertRow(db, Row(s, u, NULL, t, t))

RECURSIVE MarkAsSeenDb(_, _, _, _)
MarkAsSeenDb(db, s, urls, t) ==
    IF urls = <<>> THEN db
    ELSE MarkAsSeenDb(UpsertSeen(db, s, Head(urls), t), s, Tail(urls), t)

\* ------------------------------------------------------------------ clear_source
\* a DELETE without its WHERE clause
ClearSourceDbEverySource(db, s) == EmptyBag

\* DELETE FROM articles WHERE source_id = s
ClearSourceDb(db, s) ==
    LET keep == { r \in Rows(db) : r.source_id # s }
    IN  [r \in keep |-> db[r]]

ClearSourceCount(db, s) == BagCount(db, RowsOf(db, s))

\* ------------------------------------------------------------------ state
VARIABLES
    articles,   \* the articles table, a bag of rows
    now,        \* the database clock, NOW()
    last,       \* the last tracker call: its name, arguments and result
    marked,     \* per source, the identifiers passed to mark_as_seen and not
                \* deleted or rewritten since
    calls,      \* the mark_as_seen calls of concurrent callers, row by row
    run,        \* the scraper run: the locals of fetch_articles and its position
    pipe,       \* run_pipeline: its position, the scrapers it ran and closed
    fn          \* a call of a helper function: its name, arguments and result

vars == <<articles, now, last, marked, calls, run, pipe, fn>>

Call(op, s, list, headline, url, out, count, ok, raised) ==
    [op |-> op, source_id |-> s, list |-> list, headline |-> headline, url |-> url,
     out |-> out, count |-> count, ok |-> ok, raised |-> raised]

NoCall == Call("none", "landezine", <<>>, NULL, NULL, <<>>, 0, TRUE, FALSE)

\* no concurrent caller, no scraper run
NoCalls == [batch |-> <<>>, order |-> <<>>]

NoRun == [pc |-> "none"]

NoPipe == [pc |-> "none"]

NoFn == [op |-> "none"]

InitStore ==
    /\ articles = EmptyBag
    /\ now = 0
    /\ last = NoCall
    /\ marked = [s \in Sources |-> {}]
    /\ calls = NoCalls
    /\ run = NoRun
    /\ pipe = NoPipe
    /\ fn = NoFn

Fits(db) == BagCardinality(db) <= MaxRows

\* the tracker is called by one scraper at a time: a call is made when the
\* previous one has returned
Idle == last.op = "none"

Tick ==
    /\ now < MaxTime
    /\ now' = now + 1
    /\ UNCHANGED <<articles, last, marked, calls, run, pipe, fn>>

StoreHeadlines(s, headlines) ==
    /\ Idle
    /\ Fits(StoreHeadlinesDb(articles, s, headlines, now))
    /\ articles' = StoreHeadlinesDb(articles, s, headlines, now)
    /\ last' = Call("store_headlines", s, headlines, NULL, NULL, <<>>,
                    StoreHeadlinesCount(headlines), TRUE, FALSE)
    /\ UNCHANGED <<now, marked, calls, run, pipe, fn>>

FindNew(s, headlines) ==
    /\ Idle
    /\ last' = Call("find_new_headlines", s, headlines, NULL, NULL,
                    FindNewHeadlines(articles, s, headlines), 0, TRUE, FALSE)
    /\ UNCHANGED <<articles, now, marked, calls, run, pipe, fn>>

UpdateUrl(s, headline, u) ==
    LET res == UpdateHeadlineUrl(articles, s, headline, u, now)
        rewritten == IF res.branch = "rewrite"
                     THEN { r.url : r \in { x \in Rows(articles) : MatchesPlaceholder(x, s, headline) } }
                     ELSE {}
    IN  /\ Idle
        /\ Fits(res.db)
        /\ articles' = res.db
        /\ last' = Call("update_headline_url", s, <<>>, headline, u, <<>>, 0,
                        res.result, res.raised)
        /\ marked' = [marked EXCEPT ![s] = @ \ rewritten]
        /\ UNCHANGED <<now, calls, run, pipe, fn>>

FilterNew(s, urls) ==
    /\ Idle
    /\ last' = Call("filter_new_articles", s, urls, NULL, NULL,
                    FilterNewArticles(articles, s, urls), 0, TRUE, FALSE)
    /\ UNCHANGED <<articles, now, marked, calls, run, pipe, fn>>

MarkAsSeen(s, urls) ==
    /\ Idle
    /\ Fits(MarkAsSeenDb(articles, s, urls, now))
    /\ articles' = MarkAsSeenDb(articles, s, urls, now)
    /\ last' = Call("mark_as_seen", s, urls, NULL, NULL, <<>>, Len(urls), TRUE, FALSE)
    /\ marked' = [marked EXCEPT ![s] = @ \cup Elems(urls)]
    /\ UNCHANGED <<now, calls, run, pipe, fn>>

ClearSource(s) ==
    /\ Idle
    /\ articles' = ClearSourceDb(articles, s)
    /\ last' = Call("clear_source", s, <<>>, NULL, NULL, <<>>,
                    ClearSourceCount(articles, s), TRUE, FALSE)
    /\ marked' = [marked EXCEPT ![s] = {}]
    /\ UNCHANGED <<now, calls, run, pipe, fn>>

\* the caller takes the result of the call
Return ==
    /\ ~Idle
    /\ last' = NoCall
    /\ UNCHANGED <<articles, now, marked, calls, run, pipe, fn>>

NextStore ==
    \/ Tick
    \/ Return
    \/ \E s \in Sources, hs \in HeadlineLists : StoreHeadlines(s, hs)
    \/ \E s \in Sources, hs \in HeadlineLists : FindNew(s, hs)
    \/ \E s \in Sources, h \in UpdateHeadlines, u \in UpdateUrls : UpdateUrl(s, h, u)
    \/ \E s \in Sources, us \in UrlLists : FilterNew(s, us)
    \/ \E s \in Sources, us \in UrlLists : MarkAsSeen(s, us)
    \/ \E s \in Sources : ClearSource(s)

SpecStore == InitStore /\ [][NextStore]_vars

\* ------------------------------------------------------------------ concurrent mark_as_seen
\* Two callers run mark_as_seen for one source; each conn.execute is one
\* statement in autocommit, so the calls interleave between their upserts.
Callers == {1, 2}

ConcBatches == { << <<"u">> >>, << <<"u">>, <<"v">> >>, << <<"v">>, <<"u">> >> }

NewBatch(urls) ==
    [source_id |-> "landezine", urls |-> urls, i |-> 1, marked |-> 0,
     violations |-> 0, raised |-> FALSE, done |-> FALSE, result |-> 0]

InitConc ==
    /\ articles \in { EmptyBag, MarkAsSeenDb(EmptyBag, "landezine", << <<"u">> >>, 0) }
    /\ now = 0
    /\ last = NoCall
    /\ marked = [s \in Sources |-> {}]
    /\ \E b1 \in ConcBatches, b2 \in ConcBatches :
          calls = [batch |-> <<NewBatch(b1), NewBatch(b2)>>, order |-> <<>>]
    /\ run = NoRun
    /\ pipe = NoPipe
    /\ fn = NoFn

\* one pass of the for loop of mark_as_seen: the upsert of urls[i]; a statement
\* the unique index rejects raises inside the try and is skipped
ConcUpsert(c) ==
    LET k == calls.batch[c]
        db2 == UpsertSeen(articles, k.source_id, k.urls[k.i], now)
    IN  /\ ~k.done
        /\ k.i <= Len(k.urls)
        /\ IF ViolatesUnique(db2)
           THEN /\ articles' = articles
                /\ calls' = [calls EXCEPT !.batch[c].i = @ + 1,
                                          !.batch[c].violations = @ + 1,
                                          !.order = Append(@, c)]
           ELSE /\ articles' = db2
                /\ calls' = [calls EXCEPT !.batch[c].i = @ + 1,
                                          !.batch[c].marked = @ + 1,
                                          !.order = Append(@, c)]
        /\ UNCHANGED <<now, last, marked, run, pipe, fn>>

\* return marked
ConcReturn(c) ==
    LET k == calls.batch[c]
    IN  /\ ~k.done
        /\ k.i > Len(k.urls)
        /\ calls' = [calls EXCEPT !.batch[c].done = TRUE, !.batch[c].result = k.marked]
        /\ UNCHANGED <<articles, now, last, marked, run, pipe, fn>>

NextConc ==
    \/ Tick
    \/ \E c \in Callers : ConcUpsert(c)
    \/ \E c \in Callers : ConcReturn(c)

SpecConc == InitConc /\ [][NextConc]_vars

\* ------------------------------------------------------------------ batches with failing statements
\* a failed statement that ends the batch
AfterFailureBreaks(k, n) == n + 1

\* except Exception as e: print(...); continue
AfterFailure(k, n) == k + 1

\* mark_as_seen when conn.execute raises at the positions of failing
RECURSIVE MarkAsSeenBatch(_, _, _, _, _, _)
MarkAsSeenBatch(db, s, urls, t, failing, k) ==
    IF k > Len(urls) THEN [db |-> db, count |-> 0]
    ELSE IF k \in failing
         THEN MarkAsSeenBatch(db, s, urls, t, failing, AfterFailure(k, Len(urls)))
         ELSE LET rest == MarkAsSeenBatch(UpsertSeen(db, s, urls[k], t), s, urls, t,
                                          failing, k + 1)
              IN  [db |-> rest.db, count |-> rest.count + 1]

\* store_headlines when conn.execute raises at the positions of failing
RECURSIVE StoreHeadlinesBatch(_, _, _, _, _, _)
StoreHeadlinesBatch(db, s, headlines, t, failing, k) ==
    IF k > Len(headlines) THEN [db |-> db, count |-> 0]
    ELSE IF Strip(headlines[k]) = <<>>
         THEN StoreHeadlinesBatch(db, s, headlines, t, failing, k + 1)
         ELSE IF k \in failing
              THEN StoreHeadlinesBatch(db, s, headlines, t, failing,
                                       AfterFailure(k, Len(headlines)))
              ELSE LET rest == StoreHeadlinesBatch(InsertHeadline(db, s, headlines[k], t),
                                                   s, headlines, t, failing, k + 1)
                   IN  [db |-> rest.db, count |-> rest.count + 1]

BatchCall(op, s, list, failing, res) ==
    [op |-> op, source_id |-> s, list |-> list, failing |-> failing,
     before |-> articles, at |-> now, count |-> res.count]

MarkAsSeenFailing(s, urls, failing) ==
    LET res == MarkAsSeenBatch(articles, s, urls, now, failing, 1)
    IN  /\ fn = NoFn
        /\ Fits(res.db)
        /\ articles' = res.db
        /\ fn' = BatchCall("mark_as_seen", s, urls, failing, res)
        /\ UNCHANGED <<now, last, marked, calls, run, pipe>>

StoreHeadlinesFailing(s, headlines, failing) ==
    LET res == StoreHeadlinesBatch(articles, s, headlines, now, failing, 1)
    IN  /\ fn = NoFn
        /\ Fits(res.db)
        /\ articles' = res.db
        /\ fn' = BatchCall("store_headlines", s, headlines, failing, res)
        /\ UNCHANGED <<now, last, marked, calls, run, pipe>>

\* the batch call returns its count
BatchReturn ==
    /\ fn # NoFn
    /\ fn' = NoFn
    /\ UNCHANGED <<articles, now, last, marked, calls, run, pipe>>

NextFailing ==
    \/ Tick
    \/ BatchReturn
    \/ \E s \in Sources, us \in UrlLists :
          \E failing \in SUBSET (1..Len(us)) : MarkAsSeenFailing(s, us, failing)
    \/ \E s \in Sources, hs \in HeadlineLists :
          \E failing \in SUBSET (1..Len(hs)) : StoreHeadlinesFailing(s, hs, failing)

SpecFailing == InitStore /\ [][NextFailing]_vars

\* ------------------------------------------------------------------ the Landezine scraper
source_id == "landezine"

max_new == 10

MAX_ARTICLE_AGE_DAYS == 2

\* headlines as parse_headlines returns them: trimmed and not empty
Letters == <<"a", "b", "c", "d", "e", "f", "g", "h", "i", "j", "k", "l">>

FirstHeadlines(n) == [k \in 1..n |-> <<Letters[k]>>]

\* what the vision model reads off the homepage: nothing, five headlines,
\* twelve headlines (more than max_new)
Screens == { <<>>, FirstHeadlines(5), FirstHeadlines(12) }

\* headlines the store holds as placeholders from earlier runs
StoredAtStart == { <<>>, FirstHeadlines(3) }

\* the anchors of the homepage in DOM order: one for headline a (other case,
\* padded), one card whose text holds headlines b and c, one for headline d
HomeAnchors ==
    << [text |-> <<" ", "A", " ">>, href |-> <<"/", "a">>],
       [text |-> <<"b", " ", "c">>, href |-> <<"/", "b", "c">>],
       [text |-> <<"d">>, href |-> <<"/", "d">>] >>

\* an image link: an anchor without text
ImageAnchor == [text |-> <<" ">>, href |-> <<"/", "i", "m", "g">>]

Doms == { HomeAnchors, HomeAnchors \o <<ImageAnchor>> }

\* the age in hours, when the page is fetched, of the date each article page
\* shows; <<>> when no date on the page parses
DatesOld == [link \in {<<"/", "a">>, <<"/", "b", "c">>, <<"/", "d">>, <<"/", "i", "m", "g">>} |->
               IF link = <<"/", "a">> THEN <<71>>
               ELSE IF link = <<"/", "d">> THEN <<72>> ELSE <<>>]

DatesRecent == [link \in DOMAIN DatesOld |->
                  IF link = <<"/", "a">> THEN <<120>>
                  ELSE IF link = <<"/", "b", "c">> THEN <<24>> ELSE <<>>]

Sites == [dom : Doms, dates : {DatesOld, DatesRecent}]

\* an article page links back to the site
ArticleAnchors == << [text |-> <<"~">>, href |-> <<"/">>] >>

NoMatch == [title |-> NULL, link |-> NULL]

\* String.prototype.includes
Contains(str, sub) ==
    \E k \in 0..(Len(str) - Len(sub)) : SubSeq(str, k + 1, k + Len(sub)) = sub

\* _find_headline_in_html: the first anchor whose text contains the headline
\* or is contained in it
FindHeadlineInHtml(anchors, headline) ==
    LET search_text == Lower(Strip(headline))
        linkText(k) == Lower(Strip(anchors[k].text))
        hits == { k \in 1..Len(anchors) :
                    Contains(linkText(k), search_text) \/ Contains(search_text, linkText(k)) }
    IN  IF hits = {} THEN NoMatch
        ELSE LET k == CHOOSE x \in hits : \A y \in hits : x <= y
             IN  [title |-> Strip(anchors[k].text), link |-> anchors[k].href]

\* re.sub(r'\s+', ' ', text).strip()
RECURSIVE CollapseSpaces(_)
CollapseSpaces(t) ==
    IF Len(t) < 2 THEN t
    ELSE IF t[1] \in Whitespace /\ t[2] \in Whitespace
         THEN CollapseSpaces(Tail(t))
         ELSE <<t[1]>> \o CollapseSpaces(Tail(t))

CleanText(t) == Strip(CollapseSpaces(t))

CreateArticleDict(title, link, published) ==
    [title |-> CleanText(title), link |-> link, published |-> published,
     source_id |-> source_id]

ValidateArticle(article) ==
    /\ article.title # <<>>
    /\ article.link # <<>>
    /\ article.source_id # ""

\* (current_date - article_date).days: timedelta.days rounds down
DaysOld(age) == age \div 24

\* the cut-off with >= in place of >
IsTooOldInclusive(published) ==
    published # <<>> /\ DaysOld(published[1]) >= MAX_ARTICLE_AGE_DAYS

\* if published: days_old > self.MAX_ARTICLE_AGE_DAYS
IsTooOld(published) ==
    published # <<>> /\ DaysOld(published[1]) > MAX_ARTICLE_AGE_DAYS

\* a cap that keeps one headline too few
CapNewShort(new_headlines) ==
    IF Len(new_headlines) > max_new
    THEN SubSeq(new_headlines, 1, max_new - 1) ELSE new_headlines

\* new_headlines[:max_new]
CapNew(new_headlines) ==
    IF Len(new_headlines) > max_new
    THEN SubSeq(new_headlines, 1, max_new) ELSE new_headlines

\* storing the headlines that were processed only
HeadlinesToStoreNewOnly(r) == r.new_headlines

\* step 6 stores all current headlines
HeadlinesToStore(r) == r.current_headlines

NotReturned == << <<"pending">> >>

\* the environment with the credentials set
Configured == [DATABASE_URL |-> TRUE, OPENAI_API_KEY |-> TRUE]

\* fetch_articles past _ensure_tracker, in a configured environment
IdleRun(n, site) ==
    [pc |-> "idle", runs |-> n, dom |-> site.dom, dates |-> site.dates,
     env |-> Configured, tracker |-> "connected", browser |-> "none",
     page |-> "none", homepage |-> "none", faults |-> 0,
     current_headlines |-> <<>>, new_headlines |-> <<>>, i |-> 1,
     homepage_data |-> NoMatch, published |-> <<>>,
     new_articles |-> <<>>, skipped_old |-> 0, skipped_no_link |-> 0,
     returned |-> NotReturned, stored_all |-> FALSE, summary |-> <<>>,
     prev |-> [stored_all |-> FALSE, current_headlines |-> <<>>],
     db0 |-> EmptyBag, log |-> <<>>]

InitRun ==
    /\ \E hs \in StoredAtStart : articles = StoreHeadlinesDb(EmptyBag, source_id, hs, 0)
    /\ now = 0
    /\ last = NoCall
    /\ marked = [s \in Sources |-> {}]
    /\ calls = NoCalls
    /\ \E site \in Sites : run = IdleRun(0, site)
    /\ pipe = NoPipe
    /\ fn = NoFn

AnchorsOn(r) == IF r.page = "home" THEN r.dom ELSE ArticleAnchors

\* a return that leaves the page open
FinishPageLeftOpen(r, result) == [r EXCEPT !.pc = "done", !.returned = result]

\* return result; the finally clause closes the page when one was created
Finish(r, result) ==
    [r EXCEPT !.pc = "done", !.returned = result,
              !.page = IF r.page = "none" THEN "none" ELSE "closed"]

\* the record of what happened to the headline in hand
Logged(r, entry) == [r EXCEPT !.log = Append(@, entry)]

LogEntry(headline, link, title, fetched, published) ==
    [headline |-> headline, link |-> link, title |-> title,
     fetched |-> fetched, published |-> published]

\* continue: on to the next headline
NextHeadline(r) == [r EXCEPT !.pc = "resolve", !.i = @ + 1, !.homepage_data = NoMatch,
                             !.published = <<>>]

\* an error that ends the whole run
HeadlineErrorAborts(r) == Finish(r, <<>>)

\* except Exception inside the loop: the error is printed, continue
HeadlineError(r) == NextHeadline(r)

\* page = await self._create_page(); a failure is caught by the outer except
CreatePage ==
    /\ run.pc = "idle"
    /\ \/ run' = [run EXCEPT !.pc = "goto_home", !.page = "blank", !.browser = "open"]
       \/ \E browser \in {"none", "open"} :
             run' = Finish([run EXCEPT !.browser = browser], <<>>)
    /\ UNCHANGED <<articles, now, last, marked, calls, pipe, fn>>

\* step 1: page.goto(self.base_url) and the screenshot
GotoHomepage ==
    /\ run.pc = "goto_home"
    /\ \/ run' = [run EXCEPT !.pc = "extract", !.page = "home", !.homepage = "loaded"]
       \/ run' = Finish([run EXCEPT !.homepage = "failed"], <<>>)
    /\ UNCHANGED <<articles, now, last, marked, calls, pipe, fn>>

\* step 2: _analyze_homepage_screenshot; no headlines ends the run
ExtractHeadlines ==
    /\ run.pc = "extract"
    /\ \/ /\ run.env.OPENAI_API_KEY
          /\ \E hs \in Screens :
                run' = IF hs = <<>> THEN Finish(run, <<>>)
                       ELSE [run EXCEPT !.pc = "diff", !.current_headlines = hs]
       \/ run' = Finish(run, <<>>)
    /\ UNCHANGED <<articles, now, last, marked, calls, pipe, fn>>

\* step 3: find_new_headlines, then the cap
DiffAgainstStore ==
    LET new_headlines == FindNewHeadlines(articles, source_id, run.current_headlines)
    IN  /\ run.pc = "diff"
        /\ run' = IF new_headlines = <<>>
                  THEN Finish([run EXCEPT !.db0 = articles], <<>>)
                  ELSE [run EXCEPT !.pc = "resolve", !.i = 1, !.db0 = articles,
                                   !.new_headlines = CapNew(new_headlines)]
        /\ UNCHANGED <<articles, now, last, marked, calls, pipe, fn>>

\* step 4: _find_headline_in_html on the page as it is now
ResolveLink ==
    LET headline == run.new_headlines[run.i]
        homepage_data == FindHeadlineInHtml(AnchorsOn(run), headline)
    IN  /\ run.pc = "resolve"
        /\ run.i <= Len(run.new_headlines)
        /\ \/ /\ run.faults < MaxFaults
              /\ run' = HeadlineError(Logged([run EXCEPT !.faults = @ + 1],
                                             LogEntry(headline, NULL, NULL, FALSE, <<>>)))
           \/ /\ homepage_data = NoMatch
              /\ run' = NextHeadline(Logged([run EXCEPT !.skipped_no_link = @ + 1],
                                            LogEntry(headline, NULL, NULL, FALSE, <<>>)))
           \/ /\ homepage_data # NoMatch
              /\ run' = [run EXCEPT !.pc = "metadata", !.homepage_data = homepage_data]
        /\ UNCHANGED <<articles, now, last, marked, calls, pipe, fn>>

\* step 5: page.goto(url), the date on the page, the age filter
FetchMetadata ==
    LET headline == run.new_headlines[run.i]
        data == run.homepage_data
        published == run.dates[data.link]
    IN  /\ run.pc = "metadata"
        /\ \/ /\ run.faults < MaxFaults
              /\ \E p \in {run.page, "article"} :
                   run' = HeadlineError(Logged([run EXCEPT !.page = p, !.faults = @ + 1],
                                               LogEntry(headline, data.link, data.title,
                                                        FALSE, <<>>)))
           \/ run' = IF IsTooOld(published)
                       THEN NextHeadline(Logged([run EXCEPT !.page = "article",
                                                            !.skipped_old = @ + 1],
                                                LogEntry(headline, data.link, data.title,
                                                         TRUE, published)))
                       ELSE [run EXCEPT !.pc = "emit", !.page = "article",
                                        !.published = published]
        /\ UNCHANGED <<articles, now, last, marked, calls, pipe, fn>>

\* the article dict, its validation, update_headline_url, and the way back
\* to the homepage
EmitRecord ==
    LET headline == run.new_headlines[run.i]
        data == run.homepage_data
        article == CreateArticleDict(data.title, data.link, run.published)
        valid == ValidateArticle(article)
        entry == LogEntry(headline, data.link, data.title, TRUE, run.published)
    IN  /\ run.pc = "emit"
        /\ articles' = IF valid
                       THEN UpdateHeadlineUrl(articles, source_id, headline, data.link, now).db
                       ELSE articles
        /\ \E failed \in {FALSE} \cup {f \in {TRUE} : run.faults < MaxFaults} :
              run' = NextHeadline(Logged(
                        [run EXCEPT !.page = IF failed THEN "article" ELSE "home",
                                    !.faults = IF failed THEN @ + 1 ELSE @,
                                    !.new_articles = IF valid THEN Append(@, article) ELSE @],
                        entry))
        /\ UNCHANGED <<now, last, marked, calls, pipe, fn>>

\* the Final Summary printed by the run
Summary(r) ==
    [extracted |-> Len(r.current_headlines), new |-> Len(r.new_headlines),
     skipped_old |-> r.skipped_old, skipped_no_link |-> r.skipped_no_link,
     emitted |-> Len(r.new_articles)]

\* step 6: store_headlines, the summary, return new_articles
StoreAll ==
    /\ run.pc = "resolve"
    /\ run.i > Len(run.new_headlines)
    /\ articles' = StoreHeadlinesDb(articles, source_id, HeadlinesToStore(run), now)
    /\ run' = Finish([run EXCEPT !.stored_all = TRUE, !.summary = <<Summary(run)>>],
                     run.new_articles)
    /\ UNCHANGED <<now, last, marked, calls, pipe, fn>>

\* the next scheduled run of the scraper
NextRun ==
    /\ run.pc = "done"
    /\ run.runs + 1 < MaxRuns
    /\ run' = [IdleRun(run.runs + 1, [dom |-> run.dom, dates |-> run.dates])
                  EXCEPT !.prev = [stored_all |-> run.stored_all,
                                   current_headlines |-> run.current_headlines]]
    /\ now' = IF now < MaxTime THEN now + 1 ELSE now
    /\ UNCHANGED <<articles, last, marked, calls, pipe, fn>>

NextScrape ==
    \/ CreatePage
    \/ GotoHomepage
    \/ ExtractHeadlines
    \/ DiffAgainstStore
    \/ ResolveLink
    \/ FetchMetadata
    \/ EmitRecord
    \/ StoreAll
    \/ NextRun

SpecRun == InitRun /\ [][NextScrape]_vars

\* ------------------------------------------------------------------ run_pipeline
\* the environment variables that are set
Envs == [DATABASE_URL : BOOLEAN, OPENAI_API_KEY : BOOLEAN]

\* landezine_scraper.fetch_articles(hours) is entered
StartRun(site, env) ==
    [IdleRun(0, site) EXCEPT !.pc = "start", !.env = env, !.tracker = "none"]

\* what the Identity scraper may return
IdentityResults == { <<>>, << [title |-> <<"i">>, link |-> <<"/", "i">>, published |-> <<>>,
                             source_id |-> "identity"] >> }

InitPipeline ==
    /\ \E hs \in StoredAtStart : articles = StoreHeadlinesDb(EmptyBag, source_id, hs, 0)
    /\ now = 0
    /\ last = NoCall
    /\ marked = [s \in Sources |-> {}]
    /\ calls = NoCalls
    /\ run = NoRun
    /\ \E env \in Envs :
          pipe = [pc |-> "landezine", env |-> env, landezine |-> "not_run",
                  identity |-> "not_run", closed |-> {}, all_articles |-> <<>>]
    /\ fn = NoFn

\* landezine_scraper = LandezineScraper(); fetch_articles is called
NewLandezine ==
    /\ pipe.pc = "landezine"
    /\ \E site \in Sites : run' = StartRun(site, pipe.env)
    /\ pipe' = [pipe EXCEPT !.pc = "landezine_fetch"]
    /\ UNCHANGED <<articles, now, last, marked, calls, fn>>

\* await self._ensure_tracker(), before the try of fetch_articles:
\* ArticleTracker() raises without DATABASE_URL, connect() raises when the
\* database cannot be reached
EnsureTracker ==
    /\ run.pc = "start"
    /\ \/ /\ ~run.env.DATABASE_URL
          /\ run' = [run EXCEPT !.pc = "raised"]
       \/ /\ run.env.DATABASE_URL
          /\ \/ run' = [run EXCEPT !.pc = "idle", !.tracker = "connected"]
             \/ run' = [run EXCEPT !.pc = "raised", !.tracker = "unconnected"]
    /\ UNCHANGED <<articles, now, last, marked, calls, pipe, fn>>

\* an exception of a scraper that ends run_pipeline
ScraperFailedAborts(p) == [p EXCEPT !.pc = "aborted", !.landezine = "raised"]

\* except Exception as e: print("Landezine failed")
ScraperFailed(p) == [p EXCEPT !.pc = "landezine_close", !.landezine = "raised"]

\* fetch_articles returned or raised
AfterLandezine ==
    /\ pipe.pc = "landezine_fetch"
    /\ \/ /\ run.pc = "done"
          /\ pipe' = [pipe EXCEPT !.pc = "landezine_close", !.landezine = "returned",
                                  !.all_articles = @ \o run.returned]
       \/ /\ run.pc = "raised"
          /\ pipe' = ScraperFailed(pipe)
    /\ UNCHANGED <<articles, now, last, marked, calls, run, fn>>

\* a close that forgets the browser
CloseScraperTrackerOnly(r) ==
    [r EXCEPT !.tracker = IF @ = "connected" THEN "closed" ELSE @]

\* LandezineScraper.close: BaseCustomScraper.close, then the tracker
CloseScraper(r) ==
    [r EXCEPT !.browser = IF @ = "open" THEN "closed" ELSE @,
              !.tracker = IF @ = "connected" THEN "closed" ELSE @]

\* finally: await landezine_scraper.close()
CloseLandezine ==
    /\ pipe.pc = "landezine_close"
    /\ run' = CloseScraper(run)
    /\ pipe' = [pipe EXCEPT !.pc = "identity", !.closed = @ \cup {"landezine"}]
    /\ UNCHANGED <<articles, now, last, marked, calls, fn>>

\* identity_scraper.fetch_articles(hours) returns a list or raises
IdentityFetch ==
    /\ pipe.pc = "identity"
    /\ \/ \E result \in IdentityResults :
             pipe' = [pipe EXCEPT !.pc = "identity_close", !.identity = "returned",
                                  !.all_articles = @ \o result]
       \/ pipe' = [pipe EXCEPT !.pc = "identity_close", !.identity = "raised"]
    /\ UNCHANGED <<articles, now, last, marked, calls, run, fn>>

\* finally: await identity_scraper.close(); articles = all_articles
CloseIdentity ==
    /\ pipe.pc = "identity_close"
    /\ pipe' = [pipe EXCEPT !.pc = "done", !.closed = @ \cup {"identity"}]
    /\ UNCHANGED <<articles, now, last, marked, calls, run, fn>>

NextPipeline ==
    \/ NewLandezine
    \/ EnsureTracker
    \/ CreatePage
    \/ GotoHomepage
    \/ ExtractHeadlines
    \/ DiffAgainstStore
    \/ ResolveLink
    \/ FetchMetadata
    \/ EmitRecord
    \/ StoreAll
    \/ AfterLandezine
    \/ CloseLandezine
    \/ IdentityFetch
    \/ CloseIdentity

SpecPipeline == InitPipeline /\ [][NextPipeline]_vars

\* ------------------------------------------------------------------ helper functions
\* the texts of the anchors of a page, in DOM order
MuseumAnchors ==
    << [text |-> <<"N", "e", "w", " ", "M", "u", "s", "e", "u", "m", " ", "O", "p", "e", "n", "s">>,
        href |-> <<"/", "1">>],
       [text |-> <<"N", "e", "w", " ", "M", "u", "s", "e", "u", "m", " ", "O", "p", "e", "n", "s", " ", "i", "n", " ", "T", "o", "k", "y", "o", " ", "T", "o", "d", "a", "y">>,
        href |-> <<"/", "2">>] >>

AnchorLists == { MuseumAnchors,
                 <<MuseumAnchors[2], MuseumAnchors[1]>>,
                 <<MuseumAnchors[2]>>,
                 HomeAnchors, HomeAnchors \o <<ImageAnchor>>, ArticleAnchors }

TargetHeadlines ==
    { <<"N", "e", "w", " ", "M", "u", "s", "e", "u", "m", " ", "O", "p", "e", "n", "s", " ", "i", "n", " ", "T", "o", "k", "y", "o">>,
      <<"N", "e", "w", " ", "M", "u", "s", "e", "u", "m", " ", "O", "p", "e", "n", "s">>,
      <<"a">>, <<"b">>, <<"c">>, <<"d">>, <<"e">>, <<" ", "D", " ">> }

\* a date as a page shows it: the notation and the day, counted from today
\* (0 is today, -1 yesterday, 1 tomorrow)
DateForms == {"long", "iso", "dotted", "slash", "cjk"}

DateDays == {-400, -366, -365, -364, -15, -14, -5, -3, -2, -1, 0, 1, 3}

DateTexts == [form : DateForms, day : DateDays] \cup {[form |-> "none", day |-> 0]}

\* the time of the run, in hours since today's midnight UTC
TimesOfDay == {1, 10, 23}

ARCHIPOSITION_MAX_ARTICLE_AGE_DAYS == 14

\* datetime(year, month, day, tzinfo=utc): midnight of the day, in hours
Midnight(day) == day * 24

\* BaseCustomScraper._parse_date: "11 January 2026" and "2026-01-16" are
\* recognised; <<>> is None
ParseDate(text) ==
    IF text.form \in {"long", "iso"} THEN <<Midnight(text.day)>> ELSE <<>>

\* ArchipositionScraper._parse_chinese_date: dotted, dashed, slashed and
\* year-month-day-character dates, kept when not in the future and less
\* than 365 days old
ParseChineseDate(text, clock) ==
    IF text.form \in {"dotted", "iso", "slash", "cjk"}
    THEN LET date_obj == Midnight(text.day)
         IN  IF date_obj <= clock /\ date_obj > clock - 365 * 24
             THEN <<date_obj>> ELSE <<>>
    ELSE <<>>

\* ArchipositionScraper._is_within_age_limit
IsWithinAgeLimit(date_iso, clock) ==
    IF date_iso = <<>> THEN TRUE
    ELSE date_iso[1] >= clock - ARCHIPOSITION_MAX_ARTICLE_AGE_DAYS * 24

\* the characters of a number written in decimal
DigitChars == <<"0", "1", "2", "3", "4", "5", "6", "7", "8", "9">>

RECURSIVE Decimal(_)
Decimal(n) ==
    IF n < 10 THEN <<DigitChars[n + 1]>>
    ELSE Decimal(n \div 10) \o <<DigitChars[(n % 10) + 1]>>

IsDigit(c) == \E k \in 1..10 : DigitChars[k] = c

\* int(match.group(0))
RECURSIVE ToInt(_)
ToInt(digits) ==
    IF digits = <<>> THEN 0
    ELSE 10 * ToInt(SubSeq(digits, 1, Len(digits) - 1))
         + (CHOOSE k \in 0..9 : DigitChars[k + 1] = digits[Len(digits)])

\* re.search(r'\d+', text): the first run of digits, <<>> when there is none
RECURSIVE DigitRun(_)
DigitRun(text) ==
    IF text = <<>> \/ ~IsDigit(Head(text)) THEN <<>>
    ELSE <<Head(text)>> \o DigitRun(Tail(text))

RECURSIVE FirstDigits(_)
FirstDigits(text) ==
    IF text = <<>> THEN <<>>
    ELSE IF IsDigit(Head(text)) THEN DigitRun(text) ELSE FirstDigits(Tail(text))

UpperChar(c) ==
    CASE c = "a" -> "A"
      [] c = "c" -> "C"
      [] c = "e" -> "E"
      [] c = "h" -> "H"
      [] c = "i" -> "I"
      [] c = "m" -> "M"
      [] c = "n" -> "N"
      [] c = "o" -> "O"
      [] c = "r" -> "R"
      [] c = "t" -> "T"
      [] OTHER -> c

Upper(text) == [i \in 1..Len(text) |-> UpperChar(text[i])]

\* the containers page.evaluate returns: index is the position of the
\* container among all containers of the page, link_text its longest link text
Container(index) ==
    [index |-> index, link_text |-> <<"t", "i", "t", "l", "e", " ">> \o Decimal(index),
     href |-> <<"/">> \o Decimal(index)]

\* 17 containers, all with a link
ManyContainers == [k \in 1..17 |-> Container(k - 1)]

\* 6 containers, two of them without a link
FewContainers == <<Container(0), Container(2), Container(3), Container(5)>>

HtmlContexts == { <<>>, FewContainers, ManyContainers }

ENUMERATED == 15

\* for item in html_context[:15]: the containers written into the prompt
Enumerated(html_context) ==
    SubSeq(html_context, 1,
           IF Len(html_context) < ENUMERATED THEN Len(html_context) ELSE ENUMERATED)

\* what the model may answer
Responses ==
    { <<"N", "O", "N", "E">>,
      <<"n", "o", "n", "e">>,
      <<" ", "N", "o", "n", "e", " ">>,
      <<"3">>,
      <<"0">>,
      <<"5">>,
      <<"1", "5">>,
      <<"1", "6">>,
      <<"9", "9">>,
      <<" ", "2", " ">>,
      <<"3", " ", "o", "r", " ", "4">>,
      <<"C", "o", "n", "t", "a", "i", "n", "e", "r", " ", "3">>,
      <<"n", "o", " ", "m", "a", "t", "c", "h">>,
      <<>> }

\* _find_headline_in_html_with_ai after the containers were collected: the
\* reading of the model's response and the choice of the container
AiMatch(html_context, response) ==
    IF html_context = <<>> THEN NoMatch
    ELSE LET response_clean == Upper(Strip(response))
             digits == FirstDigits(response_clean)
             selected_index == ToInt(digits)
             hits == { k \in 1..Len(html_context) : html_context[k].index = selected_index }
         IN  IF response_clean = <<"N", "O", "N", "E">> THEN NoMatch
             ELSE IF digits = <<>> THEN NoMatch
             ELSE IF hits = {} THEN NoMatch
             ELSE LET k == CHOOSE x \in hits : \A y \in hits : x <= y
                  IN  [title |-> html_context[k].link_text, link |-> html_context[k].href]

\* ------------------------------------------------------------------ parse_headlines
MAX_HEADLINES == 20

\* str.find: the position of the first occurrence of sub in str, 0 when none
IndexOf(str, sub) ==
    IF Contains(str, sub)
    THEN CHOOSE k \in 1..Len(str) :
            /\ SubSeq(str, k, k + Len(sub) - 1) = sub
            /\ \A j \in 1..(k - 1) : SubSeq(str, j, j + Len(sub) - 1) # sub
    ELSE 0

StartsWith(str, prefix) ==
    Len(str) >= Len(prefix) /\ SubSeq(str, 1, Len(prefix)) = prefix

\* str.split('\n')
RECURSIVE SplitLines(_)
SplitLines(text) ==
    LET k == IndexOf(text, <<"\n">>)
    IN  IF k = 0 THEN <<text>>
        ELSE <<SubSeq(text, 1, k - 1)>> \o SplitLines(SubSeq(text, k + 1, Len(text)))

\* line.split('. ', 1)[1]
AfterFirst(line, sep) == SubSeq(line, IndexOf(line, sep) + Len(sep), Len(line))

\* line[:n]
Prefix(line, n) == SubSeq(line, 1, IF Len(line) < n THEN Len(line) ELSE n)

\* Remove numbered list markers (1. 2. etc)
Unnumber(line) ==
    IF IsDigit(line[1]) /\ Contains(Prefix(line, 4), <<".", " ">>)
    THEN Strip(AfterFirst(line, <<".", " ">>))
    ELSE line

\* Remove bullet points: the literal of the second test is the three
\* characters U+00E2 U+20AC U+00A2 (written "a^", "E=", "c|" here) and a
\* space, and line[2:] cuts two characters
Unbullet(line) ==
    IF StartsWith(line, <<"-", " ">>) \/ StartsWith(line, <<"a^", "E=", "c|", " ">>)
    THEN Strip(SubSeq(line, 3, Len(line)))
    ELSE line

\* the body of the loop for one line: the headlines it adds
ParseLine(raw) ==
    LET line == Strip(raw)
    IN  IF line = <<>> \/ StartsWith(line, <<"#">>)
             \/ StartsWith(Lower(line), <<"h", "e", "r", "e">>)
        THEN <<>>
        ELSE LET headline == Unbullet(Unnumber(line))
             IN  IF headline # <<>> THEN <<headline>> ELSE <<>>

RECURSIVE ParseLines(_)
ParseLines(lines) ==
    IF lines = <<>> THEN <<>> ELSE ParseLine(Head(lines)) \o ParseLines(Tail(lines))

\* headlines[:20]
ParseHeadlines(response_text) ==
    Prefix(ParseLines(SplitLines(Strip(response_text))), MAX_HEADLINES)

\* the headlines a homepage may show
HeadlineTexts == { <<"A">>, <<"2", "0", "2", "6", " ", "B">>, <<"H", "e", "r", "e", " ", "D">> }

\* what the vision model may write on a line: a headline, bare, numbered or
\* bulleted, an explanation, a blank line
ResponseItems ==
    [kind : {"headline"}, marker : {"none", "numbered", "bullet", "dot"}, text : HeadlineTexts]
       \cup { [kind |-> "explanation", marker |-> "none", text |-> <<"H", "e", "r", "e", ":">>],
              [kind |-> "blank", marker |-> "none", text |-> <<" ">>] }

\* "*b" stands for the one character U+2022, the bullet
Marker(item, k) ==
    CASE item.marker = "numbered" -> Decimal(k) \o <<".", " ">>
      [] item.marker = "bullet" -> <<"-", " ">>
      [] item.marker = "dot" -> <<"*b", " ">>
      [] OTHER -> <<>>

RECURSIVE Render(_, _)
Render(items, k) ==
    IF k > Len(items) THEN <<>>
    ELSE Marker(items[k], k) \o items[k].text
            \o (IF k < Len(items) THEN <<"\n">> ELSE <<>>) \o Render(items, k + 1)

\* a numbered list longer than the limit
LongList == [k \in 1..(MAX_HEADLINES + 2) |->
                [kind |-> "headline", marker |-> "numbered", text |-> <<"A">>]]

Answers == UNION { [1..n -> ResponseItems] : n \in 1..MaxLines } \cup {LongList}

InitHelpers ==
    /\ articles = EmptyBag
    /\ now = 0
    /\ last = NoCall
    /\ marked = [s \in Sources |-> {}]
    /\ calls = NoCalls
    /\ run = NoRun
    /\ pipe = NoPipe
    /\ fn = NoFn

\* _find_headline_in_html on a page for a headline
FindHeadline(anchors, headline) ==
    /\ fn = NoFn
    /\ fn' = [op |-> "find_headline_in_html", anchors |-> anchors, headline |-> headline,
              out |-> FindHeadlineInHtml(anchors, headline)]
    /\ UNCHANGED <<articles, now, last, marked, calls, run, pipe>>

\* Landezine, step 5: the date of the page is parsed and the age filter applied
LandezineAgeFilter(text, clock) ==
    LET published == ParseDate(text)
        age == IF published = <<>> THEN <<>> ELSE <<clock - published[1]>>
    IN  /\ fn = NoFn
        /\ fn' = [op |-> "landezine_age_filter", text |-> text, clock |-> clock,
                  parser |-> "_parse_date", max_age |-> MAX_ARTICLE_AGE_DAYS,
                  published |-> published, kept |-> ~IsTooOld(age)]
        /\ UNCHANGED <<articles, now, last, marked, calls, run, pipe>>

\* Archiposition: the date of the page is parsed and _is_within_age_limit applied
ArchipositionAgeFilter(text, clock) ==
    LET date_iso == ParseChineseDate(text, clock)
    IN  /\ fn = NoFn
        /\ fn' = [op |-> "archiposition_age_filter", text |-> text, clock |-> clock,
                  parser |-> "_parse_chinese_date",
                  max_age |-> ARCHIPOSITION_MAX_ARTICLE_AGE_DAYS,
                  published |-> date_iso, kept |-> IsWithinAgeLimit(date_iso, clock)]
        /\ UNCHANGED <<articles, now, last, marked, calls, run, pipe>>

\* _find_headline_in_html_with_ai for a page and an answer of the model
AiMatchCall(html_context, response) ==
    /\ fn = NoFn
    /\ fn' = [op |-> "find_headline_in_html_with_ai", html_context |-> html_context,
              response |-> response, out |-> AiMatch(html_context, response)]
    /\ UNCHANGED <<articles, now, last, marked, calls, run, pipe>>

\* parse_headlines on an answer of the vision model
ParseHeadlinesCall(items) ==
    /\ fn = NoFn
    /\ fn' = [op |-> "parse_headlines", items |-> items, response_text |-> Render(items, 1),
              headlines |-> ParseHeadlines(Render(items, 1))]
    /\ UNCHANGED <<articles, now, last, marked, calls, run, pipe>>

\* the call returns
HelperReturn ==
    /\ fn # NoFn
    /\ fn' = NoFn
    /\ UNCHANGED <<articles, now, last, marked, calls, run, pipe>>

NextHelpers ==
    \/ HelperReturn
    \/ \E items \in Answers : ParseHeadlinesCall(items)
    \/ \E html_context \in HtmlContexts, response \in Responses :
          AiMatchCall(html_context, response)
    \/ \E anchors \in AnchorLists, headline \in TargetHeadlines : FindHeadline(anchors, headline)
    \/ \E text \in DateTexts, clock \in TimesOfDay : LandezineAgeFilter(text, clock)
    \/ \E text \in DateTexts, clock \in TimesOfDay : ArchipositionAgeFilter(text, clock)

SpecHelpers == InitHelpers /\ [][NextHelpers]_vars

\* ================================================================== claims
U == <<"u">>
V == <<"v">>

\* the table with last_checked blanked, for comparisons up to last_checked
EraseLastChecked(db) == BagOfAll(LAMBDA r : [r EXCEPT !.last_checked = 0], db)

\* C1: filter_new_articles, called for a source with a list made only of
\* identifiers that were passed to mark_as_seen for that source, returns the
\* empty list.
C1_MarkedAreNotNew ==
    (last.op = "filter_new_articles" /\ Elems(last.list) \subseteq marked[last.source_id])
        => last.out = <<>>

C1_Witness ==
    /\ last.op = "filter_new_articles"
    /\ last.list = <<V, U>>
    /\ marked[last.source_id] = {U, V}
    /\ last.out = <<>>

\* C2: filter_new_articles(source, ids) returns exactly the elements of ids
\* that have no row for that source, in input order, whatever other sources hold.
C2_FilterReturnsUnseen ==
    last.op = "filter_new_articles"
        => last.out = SelectSeq(last.list,
                                LAMBDA u : \A r \in Rows(articles) :
                                    ~(r.source_id = last.source_id /\ r.url = u))

C2_Witness ==
    /\ last.op = "filter_new_articles"
    /\ last.source_id = "landezine"
    /\ last.list = <<U, V>>
    /\ last.out = <<V>>
    /\ \E r \in Rows(articles) : r.source_id = "prorus" /\ r.url = V

\* C3 (as claimed): after update_headline_url(source, headline, url) returned
\* True, url is not new for the source and headline is not new for it either.
C3_RewrittenNotNew ==
    (last.op = "update_headline_url" /\ last.ok)
        => /\ FilterNewArticles(articles, last.source_id, <<last.url>>) = <<>>
           /\ FindNewHeadlines(articles, last.source_id, <<last.headline>>) = <<>>

\* C4: there is at most one row per (source_id, url), and no tracker call
\* raises to its caller.
C4_UniqueSourceUrl ==
    /\ \A r \in Rows(articles) :
          BagCount(articles, { x \in Rows(articles) :
                                 x.source_id = r.source_id /\ x.url = r.url }) = 1
    /\ ~last.raised

\* update_headline_url found the url already tracked, under another headline
C4_Witness ==
    /\ last.op = "update_headline_url"
    /\ last.ok
    /\ \E r \in Rows(articles) :
          /\ r.source_id = last.source_id
          /\ r.url = last.url
          /\ r.headline # last.headline
    /\ BagCardinality(articles) = 1

\* C5: mark_as_seen keeps every row that was there, changing at most its
\* last_checked, and when every url of the list is already present the table
\* is the same up to last_checked (so a second call with the same list changes
\* nothing but last_checked).
C5_MarkAsSeenIdempotent ==
    [][last'.op = "mark_as_seen" =>
        /\ \A r \in Rows(articles) :
              \E r2 \in Rows(articles') :
                  /\ [r2 EXCEPT !.last_checked = 0] = [r EXCEPT !.last_checked = 0]
                  /\ r2.last_checked >= r.last_checked
        /\ (\A u \in Elems(last'.list) : Exists(articles, last'.source_id, u))
              => EraseLastChecked(articles') = EraseLastChecked(articles)
        /\ BagCardinality(articles') =
              BagCardinality(articles)
              + Cardinality({ u \in Elems(last'.list) : ~Exists(articles, last'.source_id, u) })
      ]_vars

\* mark_as_seen ran over a row that store_headlines or update_headline_url
\* created earlier
C5_Witness ==
    /\ last.op = "mark_as_seen"
    /\ \E r \in Rows(articles) :
          /\ r.source_id = last.source_id
          /\ r.url \in Elems(last.list)
          /\ r.headline # NULL
          /\ r.first_seen < r.last_checked


\* C6: when two callers run mark_as_seen batches for one source that share an
\* identifier, under every interleaving of their upserts no statement hits the
\* unique index, neither call raises, and when both have returned the table
\* holds exactly one row for each shared identifier.
C6_ConcurrentBatches ==
    LET b1 == calls.batch[1]
        b2 == calls.batch[2]
        shared == Elems(b1.urls) \cap Elems(b2.urls)
    IN  /\ \A c \in Callers : calls.batch[c].violations = 0 /\ ~calls.batch[c].raised
        /\ \A u \in shared :
              BagCount(articles, { r \in Rows(articles) :
                                     r.source_id = b1.source_id /\ r.url = u }) <= 1
        /\ (b1.done /\ b2.done) =>
              \A u \in shared :
                  BagCount(articles, { r \in Rows(articles) :
                                         r.source_id = b1.source_id /\ r.url = u }) = 1

\* both batches ran to the end, their upserts alternating
C6_Witness ==
    /\ calls.batch[1].done /\ calls.batch[2].done
    /\ calls.batch[1].urls = <<U, V>>
    /\ calls.batch[2].urls = <<V, U>>
    /\ calls.order = <<1, 2, 1, 2>>
    /\ BagCardinality(articles) = 2
    /\ calls.batch[1].result = 2 /\ calls.batch[2].result = 2

\* the headlines of a list that no row of the table carries, compared
\* trimmed and in lower case
NotStored(db, headlines) ==
    SelectSeq(headlines,
              LAMBDA h : \A r \in Rows(db) :
                  ~(/\ r.source_id = "landezine"
                    /\ r.headline # NULL
                    /\ Lower(Strip(r.headline)) = Lower(Strip(h))))

\* the headlines link resolution has been attempted for, in order
Attempted(r) ==
    [k \in 1..Len(r.log) |-> r.log[k].headline]
        \o (IF r.pc \in {"metadata", "emit"} THEN <<r.new_headlines[r.i]>> ELSE <<>>)

\* C7 (as claimed): after a completed run for a source whose store held only
\* headline placeholders, the store holds exactly one row per distinct headline
\* observed so far (5 extracted, 3 stored: 5 rows), whether or not the new
\* headlines resolved to links.
C7_OneEntryPerHeadline ==
    (/\ run.pc = "done"
     /\ run.stored_all
     /\ \A r \in Rows(run.db0) : IsPlaceholder(r.url))
        => BagCardinality(articles) =
              Cardinality({ Lower(Strip(h)) :
                              h \in GetStoredHeadlines(run.db0, "landezine")
                                    \cup Elems(run.current_headlines) })

\* C8: link resolution is attempted for exactly the first min(10, k) of the
\* extracted headlines that the store does not hold when the run diffs, in
\* extraction order: at every moment the attempted headlines are a prefix of
\* that list, and at the end of a run that extracted headlines they are all of it.
C8_FirstNewHeadlinesProcessed ==
    LET new == NotStored(run.db0, run.current_headlines)
        expected == SubSeq(new, 1, IF Len(new) < 10 THEN Len(new) ELSE 10)
        attempted == Attempted(run)
    IN  /\ run.pc \in {"resolve", "metadata", "emit"}
            => /\ Len(attempted) <= Len(expected)
               /\ attempted = SubSeq(expected, 1, Len(attempted))
        /\ (run.pc = "done" /\ run.current_headlines # <<>>) => attempted = expected

\* twelve headlines extracted, none stored: ten processed
C8_Witness ==
    /\ run.pc = "done"
    /\ run.stored_all
    /\ Len(run.current_headlines) = 12
    /\ run.db0 = EmptyBag
    /\ Len(run.log) = 10
    /\ run.log[10].headline = <<"j">>

C11_HeadlineErrorContinues ==
    [][/\ (run'.pc # "none" /\ run.pc \in {"resolve", "metadata"} /\ run'.faults > run.faults)
            => /\ run'.pc = "resolve"
               /\ run'.i = run.i + 1
               /\ run'.new_articles = run.new_articles
       /\ (run.pc \in {"resolve", "metadata", "emit"} /\ run.faults > 0 /\ run'.pc # "done")
            => /\ Len(run'.new_articles) >= Len(run.new_articles)
               /\ SubSeq(run'.new_articles, 1, Len(run.new_articles)) = run.new_articles
       /\ (run.pc \in {"resolve", "metadata", "emit"} /\ run.faults > 0 /\ run'.pc = "done")
            => /\ run'.stored_all
               /\ Len(run'.log) = Len(run'.new_headlines)
               /\ run'.returned = run.new_articles
      ]_vars

\* the link of the second of three headlines could not be resolved for an
\* error; the first and the third were emitted and returned
C11_Witness ==
    /\ run.pc = "done"
    /\ run.faults = 1
    /\ Len(run.log) >= 3
    /\ run.log[1].fetched
    /\ run.log[2].headline = <<"b">> /\ run.log[2].link = NULL
    /\ run.log[3].fetched
    /\ Len(run.returned) = 2
    /\ run.returned[1].link = run.log[1].link
    /\ run.returned[2].link = run.log[3].link

\* C19: clear_source(A) removes every row of A and no row of another source,
\* returns the number of rows it removed, and afterwards filter_new_articles
\* and find_new_headlines report every url and every headline as new for A.
C19_ClearSource ==
    [][(last.op = "none" /\ last'.op = "clear_source") =>
        LET A == last'.source_id
            others(db) == { r \in Rows(db) : r.source_id # A }
        IN  /\ \A r \in Rows(articles') : r.source_id # A
            /\ others(articles') = others(articles)
            /\ \A r \in others(articles) : articles'[r] = articles[r]
            /\ last'.count = BagCardinality(articles) - BagCardinality(articles')
            /\ \A urls \in UrlLists : FilterNewArticles(articles', A, urls) = urls
            /\ \A hs \in HeadlineLists : FindNewHeadlines(articles', A, hs) = hs
      ]_vars

\* clear_source removed a row of its source and left a row of the other
C19_Witness ==
    /\ last.op = "clear_source"
    /\ last.source_id = "landezine"
    /\ last.count = 1
    /\ BagCardinality(articles) = 1

\* the identifiers a source can have been reported as seen for: the urls
\* (placeholder keys among them) and the headlines on its rows
KeysOf(db, s) == { r.url : r \in RowsOf(db, s) }

HeadlinesOf(db, s) == { r.headline : r \in { x \in RowsOf(db, s) : x.headline # NULL } }

SeenUrl(db, s, u) == FilterNewArticles(db, s, <<u>>) = <<>>

SeenHeadline(db, s, h) == FindNewHeadlines(db, s, <<h>>) = <<>>

C14_AgeCutoff ==
    fn.op \in {"landezine_age_filter", "archiposition_age_filter"}
        => (~fn.kept <=> (/\ fn.published # <<>>
                          /\ (fn.clock - fn.published[1]) \div 24 > fn.max_age))

\* C15 (as claimed): whichever parser read it, a date the parser recognises
\* is kept exactly when it is not in the future and not more than 365 days in
\* the past, and is treated as absent otherwise.
C15_DateSanity ==
    LET recognised == IF fn.parser = "_parse_date" THEN {"long", "iso"}
                      ELSE {"dotted", "iso", "slash", "cjk"}
        date == fn.text.day * 24
    IN  (fn.op \in {"landezine_age_filter", "archiposition_age_filter"}
         /\ fn.text.form \in recognised)
            => (fn.published = <<>> <=> (date > fn.clock \/ fn.clock - date > 365 * 24))

\* C16 (as claimed): with anchors "New Museum Opens" and "New Museum Opens in
\* Tokyo Today", in that order, the headline "New Museum Opens in Tokyo" is
\* matched to the second anchor.
C16_LongestMatchPreferred ==
    (/\ fn.op = "find_headline_in_html"
     /\ fn.anchors = MuseumAnchors
     /\ fn.headline = SubSeq(MuseumAnchors[2].text, 1, Len(MuseumAnchors[2].text) - 6))
        => /\ fn.out # NoMatch
           /\ fn.out.link = MuseumAnchors[2].href

\* C17 (as claimed): the AI matcher returns no-match or one of the (at most
\* 15) containers written into the prompt, and a response that is neither the
\* NONE sentinel nor a single index of one of those containers yields no-match.
C17_OnlyEnumeratedContainers ==
    fn.op = "find_headline_in_html_with_ai" =>
        LET shown == SubSeq(fn.html_context, 1,
                            IF Len(fn.html_context) < 15 THEN Len(fn.html_context) ELSE 15)
            answer == Strip(fn.response)
            isIndex == /\ answer # <<>>
                       /\ \A k \in 1..Len(answer) : IsDigit(answer[k])
                       /\ \E k \in 1..Len(shown) : Decimal(shown[k].index) = answer
        IN  /\ \/ fn.out = NoMatch
               \/ \E k \in 1..Len(shown) :
                     fn.out = [title |-> shown[k].link_text, link |-> shown[k].href]
            /\ ~isIndex => fn.out = NoMatch

C18_MissingCredentialAbortsBeforeBrowser ==
    (~pipe.env.DATABASE_URL \/ ~pipe.env.OPENAI_API_KEY)
       => /\ pipe.pc # "landezine" => run.browser = "none"
          /\ pipe.pc \notin {"identity", "identity_close", "done"}
          /\ pipe.identity = "not_run"

\* the headlines among the lines of an answer, in order
RECURSIVE HeadlinesWritten(_)
HeadlinesWritten(items) ==
    IF items = <<>> THEN <<>>
    ELSE (IF Head(items).kind = "headline" THEN <<Head(items).text>> ELSE <<>>)
            \o HeadlinesWritten(Tail(items))

\* C21: parse_headlines returns at most 20 headlines, none empty, and they
\* are the headlines of the answer's lines, in order and without their
\* list markers, cut after the twentieth: no headline line is dropped.
C21_ParseHeadlines ==
    fn.op = "parse_headlines"
       => /\ Len(fn.headlines) <= 20
          /\ \A k \in 1..Len(fn.headlines) : fn.headlines[k] # <<>>
          /\ fn.headlines = Prefix(HeadlinesWritten(fn.items), 20)

\* the elements of a batch whose statement did not fail, in order
Succeeded(list, failing) ==
    LET F[k \in 0..Len(list)] ==
            IF k = 0 THEN <<>>
            ELSE IF k \in failing THEN F[k - 1] ELSE Append(F[k - 1], list[k])
    IN  F[Len(list)]

\* C22: a mark_as_seen or store_headlines batch in which some upserts fail
\* returns; the table is what the upserts of the other identifiers, in
\* order, make of it, and the count returned is the number of identifiers
\* whose upsert succeeded.
C22_BatchSurvivesFailures ==
    /\ fn.op = "mark_as_seen"
          => /\ fn.count = Len(Succeeded(fn.list, fn.failing))
             /\ articles = MarkAsSeenDb(fn.before, fn.source_id,
                                        Succeeded(fn.list, fn.failing), fn.at)
    /\ fn.op = "store_headlines"
          => /\ fn.count = StoreHeadlinesCount(Succeeded(fn.list, fn.failing))
             /\ articles = StoreHeadlinesDb(fn.before, fn.source_id,
                                            Succeeded(fn.list, fn.failing), fn.at)

C22_Witness ==
    /\ fn.op = "mark_as_seen"
    /\ fn.list = << <<"u">>, <<"v">> >>
    /\ fn.failing = {1}
    /\ fn.count = 1
    /\ Exists(articles, fn.source_id, <<"v">>)
    /\ ~Exists(articles, fn.source_id, <<"u">>)

\* C23: a run that is over has produced its summary, whichever way it ended.
C23_SummaryOnEveryRun ==
    run.pc = "done" => run.summary # <<>>

C25_StoredAreNotNew ==
    /\ last.op = "find_new_headlines"
          => last.out = SelectSeq(last.list,
                 LAMBDA h : \A r \in RowsOf(articles, last.source_id) :
                               r.headline # NULL
                                  => Lower(Strip(h)) # Lower(Strip(r.headline)))
    /\ last.op = "store_headlines"
          => FindNewHeadlines(articles, last.source_id, last.list) = <<>>

\* C26: a headline the diff step of a run reported as new (no row of the
\* table carried it when the run began) is not recorded as seen by the run
\* unless the run attempted it: when the run has stored its headlines, each
\* of them that was new has had its link resolution attempted.
C26_SeenOnlyIfAttempted ==
    (run.pc = "done" /\ run.stored_all)
       => \A h \in Elems(NotStored(run.db0, run.current_headlines)) :
             /\ NotStored(articles, <<h>>) = <<>>
             /\ h \in Elems(Attempted(run))

\* update_headline_url is called for a headline and a url that a row of the
\* source already carries with another headline
SecondHeadlineSameUrl ==
    /\ last.op = "none"
    /\ last'.op = "update_headline_url"
    /\ \E r \in RowsOf(articles, last'.source_id) :
          r.url = last'.url /\ r.headline # last'.headline

\* C27 (as claimed): when a second headline resolves to a url already in the
\* table, update_headline_url inserts a second row.
C27_SecondRowInserted ==
    [][SecondHeadlineSameUrl
          => BagCardinality(articles') = BagCardinality(articles) + 1]_vars

\* C27 (amended): when a second headline resolves to a url already in the
\* table, update_headline_url only refreshes last_checked of the row of that
\* url: no row is inserted and the row keeps its headline.
C27_SecondHeadlineOnlyRefreshes ==
    [][SecondHeadlineSameUrl
          => /\ articles' = BumpLastChecked(articles, last'.source_id, last'.url, now)
             /\ BagCardinality(articles') = BagCardinality(articles)
             /\ last'.ok]_vars

C27_Witness ==
    /\ last.op = "update_headline_url"
    /\ last.ok
    /\ last.headline = <<" ", "a">>
    /\ \E r \in RowsOf(articles, last.source_id) :
          /\ r.url = last.url
          /\ r.headline = <<"a">>
          /\ BagCount(articles, { x \in RowsOf(articles, last.source_id) : x.url = last.url }) = 1

\* C28: whenever the link resolution of a headline is about to start, the
\* page shows the homepage.
C28_ResolveOnHomepage ==
    (run.pc = "resolve" /\ run.i <= Len(run.new_headlines)) => run.page = "home"

\* C29: a run returns no record whose link the table carried as an
\* identifier of the source when the run began, and no two records with the
\* same link.
C29_NoUrlEmittedTwice ==
    run.pc = "done"
       => /\ \A i \in 1..Len(run.returned) :
                ~Exists(run.db0, source_id, run.returned[i].link)
          /\ \A i, j \in 1..Len(run.returned) :
                run.returned[i].link = run.returned[j].link => i = j

\* the anchors with a text that contains the headline or is contained in
\* it, compared trimmed and in lower case
TextMatches(anchors, headline) ==
    { k \in 1..Len(anchors) :
        /\ Strip(anchors[k].text) # <<>>
        /\ \/ Contains(Lower(Strip(anchors[k].text)), Lower(Strip(headline)))
           \/ Contains(Lower(Strip(headline)), Lower(Strip(anchors[k].text))) }

\* C30: for a headline that is not blank, the containment matcher returns
\* an anchor only when the anchor has a text and that text contains the
\* headline or is contained in it, and returns no match when there is no
\* such anchor.
C30_NoEmptyAnchorMatch ==
    (fn.op = "find_headline_in_html" /\ Strip(fn.headline) # <<>>)
       => IF TextMatches(fn.anchors, fn.headline) = {}
          THEN fn.out = NoMatch
          ELSE \E k \in TextMatches(fn.anchors, fn.headline) :
                  /\ fn.out.link = fn.anchors[k].href
                  /\ fn.out.title = Strip(fn.anchors[k].text)

====
